---- MODULE Spec2Model ----
(***************************************************************************)
(* Model of hub_detector_lib.py: the tracked pose estimator                *)
(* (CameraExtrinsics), the hub's target model (set_vis_tape_coords) and    *)
(* localizers (Hub.localize, Hub.localize_known_config), the chessboard    *)
(* tracker, the quad extractor (sort_quad, interp_by_x, extract_quad and   *)
(* its tests, detect_tapes) and runPipeline.                               *)
(*                                                                         *)
(* Numbers.  The program computes in floating point.  The model computes   *)
(* in exact integer arithmetic on inputs for which the program's           *)
(* floating-point results are those integers:                              *)
(*   - rotation vectors are single-axis rotations by whole quarter turns   *)
(*     (written in units of pi/2), so cv2.Rodrigues is an integer matrix;  *)
(*   - translation vectors have an integer Euclidean norm;                 *)
(*   - angles handed to atan2 / arctan / tan are multiples of 45 degrees;  *)
(*   - the camera calibration is an ideal pinhole (no distortion), so      *)
(*     cv2.undistortPoints is (u - cx) / fx, (v - cy) / fy.                *)
(* Calls into cv2 whose result is not a function of the model's state      *)
(* (solvePnP, findChessboardCorners, findContours, minAreaRect, ...) are   *)
(* inputs of the actions.                                                  *)
(***************************************************************************)
EXTENDS Integers, Sequences, FiniteSets, TLC

\* Python's None for an array-valued attribute; Some(v) for a scalar that
\* may be None or absent.
None == << >>
Some(v) == << v >>
Val(o) == o[1]

Abs(x) == IF x < 0 THEN -x ELSE x
RECURSIVE SumSeq(_)
SumSeq(s) == IF s = << >> THEN 0 ELSE Head(s) + SumSeq(Tail(s))
RECURSIVE MaxSeq(_)
MaxSeq(s) == IF Len(s) = 1 THEN s[1]
             ELSE LET m == MaxSeq(Tail(s)) IN IF s[1] > m THEN s[1] ELSE m
RECURSIVE Flatten(_)
Flatten(ss) == IF ss = << >> THEN << >> ELSE Head(ss) \o Flatten(Tail(ss))

\* Number of strips of the hub model (Hub.__init__'s num_tapes).
NumTapes == 2
\* The most quads a frame holds: one more than the model has strips.
MaxQuads == NumTapes + 1

(***************************************************************************)
(* Library arithmetic on the exact domain.                                 *)
(***************************************************************************)
\* np.linalg.norm of an integer vector whose norm is an integer.
Norm(v) == LET s == SumSeq([i \in 1..Len(v) |-> v[i] * v[i]])
               b == SumSeq([i \in 1..Len(v) |-> Abs(v[i])])
           IN CHOOSE n \in 0..b : n * n = s

\* math.atan2(y, x) in degrees, for directions that are multiples of 45.
Atan2Deg(y, x) ==
  CASE y = 0 /\ x >= 0 -> 0
    [] y = 0 /\ x < 0 -> 180
    [] x = 0 /\ y > 0 -> 90
    [] x = 0 /\ y < 0 -> -90
    [] x > 0 /\ y = x -> 45
    [] x > 0 /\ y = -x -> -45
    [] x < 0 /\ y = -x -> 135
    [] x < 0 /\ y = x -> -135

\* np.arctan(n / d) in degrees, d > 0, for n / d in {-1, 0, 1}.
ArctanDeg(n, d) ==
  CASE n = 0 -> 0
    [] n = d -> 45
    [] n = -d -> -45

\* np.tan of an angle in degrees, for the angles -45, 0, 45.
TanDeg(a) ==
  CASE a = 0 -> 0
    [] a = 45 -> 1
    [] a = -45 -> -1

\* cos and sin of k quarter turns.
CosQ(k) == CASE k % 4 = 0 -> 1 [] k % 4 = 1 -> 0 [] k % 4 = 2 -> -1 [] k % 4 = 3 -> 0
SinQ(k) == CASE k % 4 = 0 -> 0 [] k % 4 = 1 -> 1 [] k % 4 = 2 -> 0 [] k % 4 = 3 -> -1

\* cv2.Rodrigues(rvec): the rotation matrix (rows) of a single-axis rotation
\* vector given in quarter turns.
Rodrigues(r) ==
  IF r[1] # 0 THEN << <<1, 0, 0>>,
                      <<0, CosQ(r[1]), -SinQ(r[1])>>,
                      <<0, SinQ(r[1]), CosQ(r[1])>> >>
  ELSE IF r[2] # 0 THEN << <<CosQ(r[2]), 0, SinQ(r[2])>>,
                           <<0, 1, 0>>,
                           <<-SinQ(r[2]), 0, CosQ(r[2])>> >>
  ELSE << <<CosQ(r[3]), -SinQ(r[3]), 0>>,
          <<SinQ(r[3]), CosQ(r[3]), 0>>,
          <<0, 0, 1>> >>

Transpose(m) == [i \in 1..3 |-> [j \in 1..3 |-> m[j][i]]]
MatVec(m, v) == [i \in 1..3 |-> m[i][1] * v[1] + m[i][2] * v[2] + m[i][3] * v[3]]
VecSub(a, b) == [i \in 1..Len(a) |-> a[i] - b[i]]
Dot(a, b) == SumSeq([i \in 1..Len(a) |-> a[i] * b[i]])
Cross2(a, b) == a[1] * b[2] - a[2] * b[1]
Cross3(a, b) == << a[2] * b[3] - a[3] * b[2],
                   a[3] * b[1] - a[1] * b[3],
                   a[1] * b[2] - a[2] * b[1] >>

(***************************************************************************)
(* CameraExtrinsics.  An instance is a record; a method is the record it   *)
(* leaves behind, its return value a second operator.                      *)
(***************************************************************************)
\* reset() assigns rvec, tvec, trackingSuccess, distance and yaw; it does not
\* assign pitch.
reset(ce) ==
  [ce EXCEPT !.rvec = None, !.tvec = None, !.trackingSuccess = FALSE,
             !.distance = 0, !.yaw = 0]

\* CameraExtrinsics.__init__: reset() on an object with no attribute yet.
\* pitch = None stands for "the attribute pitch does not exist": only
\* compute_farness_and_turnness and Hub.localize_known_config create it.
CameraExtrinsics_init ==
  reset([rvec |-> None, tvec |-> None, trackingSuccess |-> FALSE,
         distance |-> 0, yaw |-> 0, pitch |-> None])

max_delta == 12

\* verify_tracking_output with the comparison turned into >=: a jump of
\* exactly max_delta is vetoed.
verify_tracking_output_ge(ce, new_rvec, new_tvec) ==
  IF ce.trackingSuccess
  THEN ~ (Abs(Norm(new_tvec) - Norm(ce.tvec)) >= max_delta)
  ELSE TRUE

verify_tracking_output(ce, new_rvec, new_tvec) ==
  IF ce.trackingSuccess
  THEN LET delta_dist == Abs(Norm(new_tvec) - Norm(ce.tvec))
       IN IF delta_dist > max_delta THEN FALSE ELSE TRUE
  ELSE TRUE

compute_farness_and_turnness(ce) ==
  LET Twc == ce.tvec
      Rwc == Rodrigues(ce.rvec)
      cam2world(point) == MatVec(Transpose(Rwc), VecSub(point, Twc))
      cam_loc == cam2world(<<0, 0, 0>>)
      cam_orient == VecSub(cam2world(<<0, 0, 1>>), cam_loc)
      cam2orig_xz == << -cam_loc[1], -cam_loc[3] >>
      cam_orient_xz == << cam_orient[1], cam_orient[3] >>
      y_axis == <<0, -1, 0>>
  IN [ce EXCEPT
        !.yaw = Atan2Deg(Cross2(cam_orient_xz, cam2orig_xz),
                         Dot(cam_orient_xz, cam2orig_xz)),
        !.pitch = Some(Atan2Deg(Dot(cam_orient, y_axis),
                                Norm(Cross3(cam_orient, y_axis)))),
        !.distance = Norm(cam2orig_xz)]

\* update_rvec_tvec without the call of compute_farness_and_turnness: the
\* pose is stored, the metrics are the previous frame's.
update_rvec_tvec_stale(ce, rvec, tvec) ==
  IF verify_tracking_output(ce, rvec, tvec)
  THEN [ce EXCEPT !.rvec = rvec, !.tvec = tvec, !.trackingSuccess = TRUE]
  ELSE reset(ce)

update_rvec_tvec(ce, rvec, tvec) ==
  IF verify_tracking_output(ce, rvec, tvec)
  THEN compute_farness_and_turnness(
         [ce EXCEPT !.rvec = rvec, !.tvec = tvec, !.trackingSuccess = TRUE])
  ELSE reset(ce)

\* The value update_rvec_tvec returns.
update_rvec_tvec_ret(ce, rvec, tvec) == verify_tracking_output(ce, rvec, tvec)

\* rvec_tvec(): copies of the stored pose, None for what is not stored.
rvec_tvec(ce) == << ce.rvec, ce.tvec >>

\* useExtrinsicGuess always on.
solvePnP_guess_always(ce) == TRUE

\* The useExtrinsicGuess argument estimate_pose hands to cv2.solvePnP.
solvePnP_guess(ce) == ce.trackingSuccess

\* cv2.solvePnP raises cv2.error when the object and image point counts
\* differ (its CV_Assert on npoints); nothing has been assigned by then.
solvePnP_raises(obj_pts, img_pts) == Len(obj_pts) # Len(img_pts)

\* estimate_pose(obj_pts, img_pts); solved is what cv2.solvePnP returned for
\* these points: [success, rvec, tvec].  The success flag is unpacked and
\* not read again.
estimate_pose(ce, obj_pts, img_pts, solved) ==
  IF obj_pts = None \/ img_pts = None
  THEN reset(ce)
  ELSE IF solvePnP_raises(obj_pts, img_pts)
  THEN ce
  ELSE update_rvec_tvec(ce, solved.rvec, solved.tvec)

\* The value estimate_pose returns (FALSE also stands for "raised").
estimate_pose_ret(ce, obj_pts, img_pts, solved) ==
  IF obj_pts = None \/ img_pts = None
  THEN FALSE
  ELSE IF solvePnP_raises(obj_pts, img_pts)
  THEN FALSE
  ELSE update_rvec_tvec_ret(ce, solved.rvec, solved.tvec)

\* The exception estimate_pose ends with, "none" when it returns.
estimate_pose_exc(obj_pts, img_pts) ==
  IF obj_pts = None \/ img_pts = None THEN "none"
  ELSE IF solvePnP_raises(obj_pts, img_pts) THEN "cv2.error"
  ELSE "none"

is_valid(ce) == ce.trackingSuccess

(***************************************************************************)
(* Hub.                                                                    *)
(***************************************************************************)
\* The calib argument of the Hub and ChessboardTracker under test: an object
\* with cameraMatrix [[fx, 0, cx], [0, fy, cy], [0, 0, 1]] and distCoeffs all
\* zero, an ideal pinhole camera for a 400 x 300 image.  It is not the
\* module's LimelightCalib, whose focal lengths differ and whose distortion
\* makes cv2.undistortPoints nonlinear; the hubs of the model are built with
\* this calibration and passed to runPipeline as its hub argument.
Calib == [fx |-> 100, fy |-> 100, cx |-> 200, cy |-> 150]

\* mask.shape of a frame: (height, width).
MaskShape == <<300, 400>>

\* The scene constants a Hub may be constructed with (height, cam_height,
\* cam_pitch); each defaults to None.
FullConfig == [height |-> Some(104), cam_height |-> Some(30), cam_pitch |-> Some(45)]
SceneConfigs ==
  { FullConfig,
    [FullConfig EXCEPT !.height = None],
    [FullConfig EXCEPT !.cam_height = None],
    [FullConfig EXCEPT !.cam_pitch = None] }

\* Hub.__init__: the geometry arguments of the hub under test (lengths in
\* inches, whole numbers).
HubGeometry ==
  [radius |-> 27, tape_length |-> 5, gap_length |-> 6, tape_height |-> 2,
   num_tapes |-> NumTapes]

\* A corner of the target model, (cos(a) * radius, y, sin(a) * radius), is
\* written <<arc, y>> with a = arc / radius: tape_rads and gap_rads are
\* tape_length / radius and gap_length / radius, so total_rads * radius is a
\* sum of lengths.
\* The four corners of a strip as the loop body appends them: both ends of
\* the first edge, then both ends of the second edge.
tape_appended(g, total) ==
  << << total, -(g.tape_height \div 2) >>,
     << total, g.tape_height \div 2 >>,
     << total + g.tape_length, -(g.tape_height \div 2) >>,
     << total + g.tape_length, g.tape_height \div 2 >> >>

\* new_order left as the order of construction.
new_order_asbuilt == <<1, 2, 3, 4>>

\* new_order = [0, 2, 3, 1], as 1-based indices.
new_order == <<1, 3, 4, 2>>

\* The loop of set_vis_tape_coords from iteration i on, total = total_rads *
\* radius at its start.
RECURSIVE set_vis_tape_coords_from(_, _, _)
set_vis_tape_coords_from(g, i, total) ==
  IF i >= g.num_tapes THEN << >>
  ELSE LET tape == tape_appended(g, total)
       IN << [k \in 1..4 |-> tape[new_order[k]]] >>
          \o set_vis_tape_coords_from(g, i + 1, total + g.tape_length + g.gap_length)

set_vis_tape_coords(g) == set_vis_tape_coords_from(g, 0, 0)

\* self.tapes of the hub under test.
Tapes == set_vis_tape_coords(HubGeometry)

Min(a, b) == IF a < b THEN a ELSE b

\* cv2.undistortPoints for the ideal pinhole, np.squeeze'd: the normalized
\* coordinates ((u - cx) / fx, (v - cy) / fy), kept as their numerators.
undistortPoints(img_pts) ==
  [i \in 1..Len(img_pts) |-> << img_pts[i][1] - Calib.cx, img_pts[i][2] - Calib.cy >>]

\* The metrics of the known-geometry path, for a complete configuration and
\* at least one quad.
known_config_metrics(ce, config, quads) ==
  LET img_pts == undistortPoints(Flatten(quads))
      img_y == [i \in 1..Len(img_pts) |-> -img_pts[i][2]]
      img_x == [i \in 1..Len(img_pts) |-> img_pts[i][1]]
      y_theta == ArctanDeg(MaxSeq(img_y), Calib.fy)
      total_angle == y_theta + Val(config.cam_pitch)
      h_z_ratio == TanDeg(total_angle)
      cam_tape_height == Val(config.height) + HubGeometry.tape_height \div 2
                         - Val(config.cam_height)
      hdist == IF h_z_ratio > 0
               THEN cam_tape_height \div h_z_ratio + HubGeometry.radius
               ELSE 0
      x_theta == ArctanDeg(SumSeq(img_x), Len(img_x) * Calib.fx)
  IN [ce EXCEPT !.distance = hdist, !.yaw = x_theta,
                !.pitch = Some(Val(config.cam_pitch))]

\* localize_known_config that returns without the reset when a scene
\* constant is unset.
localize_known_config_noreset(ce, config, quads) ==
  IF config.height = None \/ config.cam_height = None \/ config.cam_pitch = None
  THEN ce
  ELSE IF Len(quads) < 1
  THEN reset(ce)
  ELSE known_config_metrics(ce, config, quads)

localize_known_config(ce, config, quads) ==
  IF config.height = None \/ config.cam_height = None \/ config.cam_pitch = None
  THEN reset(ce)
  ELSE IF Len(quads) < 1
  THEN reset(ce)
  ELSE known_config_metrics(ce, config, quads)

\* The points Hub.localize hands to estimate_pose.
localize_obj_pts(quads) == Flatten(SubSeq(Tapes, 1, Min(Len(quads), Len(Tapes))))
localize_img_pts(quads) == Flatten(quads)

\* localize with the quad-count guard off by one: a single quad goes to the
\* solver.
localize_min1(ce, quads, solved) ==
  IF Len(quads) < 1
  THEN reset(ce)
  ELSE estimate_pose(ce, localize_obj_pts(quads), localize_img_pts(quads), solved)

localize(ce, quads, solved) ==
  IF Len(quads) < 2
  THEN reset(ce)
  ELSE estimate_pose(ce, localize_obj_pts(quads), localize_img_pts(quads), solved)

localize_exc(quads) ==
  IF Len(quads) < 2 THEN "none"
  ELSE estimate_pose_exc(localize_obj_pts(quads), localize_img_pts(quads))

(***************************************************************************)
(* The quad extractor.  A point is <<x, y>>.  A contour is what cv2 reports *)
(* of it: [pts, arc, area, hull_area, rect, box] = its points, arcLength,   *)
(* contourArea, the contourArea of its convexHull, minAreaRect's           *)
(* [w, h, angle] and boxPoints of that rectangle.                           *)
(***************************************************************************)
\* np.argsort(keys): the indices in ascending key order, equal keys in index
\* order (numpy sorts arrays this short by insertion).
ArgSort(keys) ==
  LET n == Len(keys)
      pos(i) == 1 + Cardinality({j \in 1..n : keys[j] < keys[i]
                                               \/ (keys[j] = keys[i] /\ j < i)})
  IN [r \in 1..n |-> CHOOSE i \in 1..n : pos(i) = r]

Reverse(s) == [i \in 1..Len(s) |-> s[Len(s) + 1 - i]]

\* np.linalg.norm(a - b), squared: argsort orders norms as it orders these.
Dist2(a, b) == (a[1] - b[1]) * (a[1] - b[1]) + (a[2] - b[2]) * (a[2] - b[2])

sort_quad(quad) ==
  LET byX == ArgSort([i \in 1..4 |-> quad[i][1]])
      xSorted == [r \in 1..4 |-> quad[byX[r]]]
      leftMost0 == SubSeq(xSorted, 1, 2)
      rightMost == SubSeq(xSorted, 3, 4)
      byY == ArgSort([i \in 1..2 |-> leftMost0[i][2]])
      leftMost == [r \in 1..2 |-> leftMost0[byY[r]]]
      tl == leftMost[1]
      bl == leftMost[2]
      dists == [i \in 1..2 |-> Dist2(tl, rightMost[i])]
      byD == Reverse(ArgSort(dists))
      br == rightMost[byD[1]]
      tr == rightMost[byD[2]]
  IN << tl, tr, br, bl >>

\* reorder_quads: the quads in ascending order of their first corner's x.
reorder_quads(quads) ==
  IF Len(quads) > 0
  THEN LET byX == ArgSort([i \in 1..Len(quads) |-> quads[i][1][1]])
       IN [r \in 1..Len(quads) |-> quads[byX[r]]]
  ELSE quads

\* interp_by_x takes the branch abs(d12) < 1e-6, whose expression calls
\* fabs, a name the module never defines: NameError.
interp_by_x_raises(p1, p2, x) == Abs(p2[1] - p1[1]) = 0

\* interp_by_x on its other branch; the division is exact on the inputs used.
interp_by_x(p1, p2, x) ==
  LET d12 == p2[1] - p1[1]
      d1x == x - p1[1]
  IN << x, ((d12 - d1x) * p1[2] + d1x * p2[2]) \div d12 >>

min_area == 150
border == 10
max_horz_angle == 60
min_arc_length == 50

\* test_area with min_hull_area_ratio = 0.9 and max_hull_area_ratio = 1.01.
test_area(c) ==
  IF c.area < min_area THEN FALSE
  ELSE IF 100 * c.area < 90 * c.hull_area THEN FALSE
  ELSE IF 100 * c.area > 101 * c.hull_area THEN FALSE
  ELSE TRUE

\* test_border_proximity with the two entries of mask.shape taken the other
\* way round.
test_border_proximity_swapped(polygon, mask_shape) ==
  LET width == mask_shape[1]
      height == mask_shape[2]
  IN \A i \in 1..Len(polygon) :
       ~ (polygon[i][1] < border \/ polygon[i][1] > width - border
          \/ polygon[i][2] < border \/ polygon[i][2] > height - border)

test_border_proximity(polygon, mask_shape) ==
  LET width == mask_shape[2]
      height == mask_shape[1]
  IN \A i \in 1..Len(polygon) :
       ~ (polygon[i][1] < border \/ polygon[i][1] > width - border
          \/ polygon[i][2] < border \/ polygon[i][2] > height - border)

\* The angle the tilt check compares with max_horz_angle: angles above 45
\* are reflected.
horz_angle(angle) == IF angle > 45 THEN 90 - angle ELSE angle

\* test_aspect_ratio without the reflection of angles above 45.
test_aspect_ratio_noreflect(rect) ==
  LET wide == Abs(rect.angle) < 45
      num == IF wide THEN rect.w ELSE rect.h
      den == IF wide THEN rect.h ELSE rect.w
  IN IF 10 * num < 12 * den THEN FALSE
     ELSE IF num > 10 * den THEN FALSE
     ELSE IF rect.angle > max_horz_angle THEN FALSE
     ELSE TRUE

\* test_aspect_ratio with the window [1.2, 10.0]; cos(angle) > cos(45) for an
\* angle of minAreaRect's range [-90, 90] is |angle| < 45.
test_aspect_ratio(rect) ==
  LET wide == Abs(rect.angle) < 45
      num == IF wide THEN rect.w ELSE rect.h
      den == IF wide THEN rect.h ELSE rect.w
      angle == horz_angle(rect.angle)
  IN IF 10 * num < 12 * den THEN FALSE
     ELSE IF num > 10 * den THEN FALSE
     ELSE IF angle > max_horz_angle THEN FALSE
     ELSE TRUE

\* extract_quad passes its three tests.
extract_quad_found(c) ==
  test_area(c) /\ test_border_proximity(c.pts, MaskShape) /\ test_aspect_ratio(c.rect)

\* The zero-roll step of extract_quad on sorted corners: the four
\* interp_by_x calls in order, the last two on the corrected tl and bl.
zero_roll_raises(q) ==
  LET xl == IF q[1][1] > q[4][1] THEN q[1][1] ELSE q[4][1]
      xr == IF q[2][1] < q[3][1] THEN q[2][1] ELSE q[3][1]
  IN \/ interp_by_x_raises(q[1], q[2], xl)
     \/ interp_by_x_raises(q[4], q[3], xl)
     \/ interp_by_x_raises(interp_by_x(q[1], q[2], xl), q[2], xr)
     \/ interp_by_x_raises(interp_by_x(q[4], q[3], xl), q[3], xr)

\* The zero-roll step with the looser x bound on the left side.
zero_roll_loose(q) ==
  LET xl == IF q[1][1] < q[4][1] THEN q[1][1] ELSE q[4][1]
      xr == IF q[2][1] < q[3][1] THEN q[2][1] ELSE q[3][1]
      tl == interp_by_x(q[1], q[2], xl)
      bl == interp_by_x(q[4], q[3], xl)
      tr == interp_by_x(tl, q[2], xr)
      br == interp_by_x(bl, q[3], xr)
  IN << tl, tr, br, bl >>

zero_roll(q) ==
  LET xl == IF q[1][1] > q[4][1] THEN q[1][1] ELSE q[4][1]
      xr == IF q[2][1] < q[3][1] THEN q[2][1] ELSE q[3][1]
      tl == interp_by_x(q[1], q[2], xl)
      bl == interp_by_x(q[4], q[3], xl)
      tr == interp_by_x(tl, q[2], xr)
      br == interp_by_x(bl, q[3], xr)
  IN << tl, tr, br, bl >>

\* extract_quad with its defaults, for a contour that passes the tests.
extract_quad(c) == zero_roll(sort_quad(c.box))
extract_quad_raises(c) == extract_quad_found(c) /\ zero_roll_raises(sort_quad(c.box))

\* The contours detect_tapes hands on: arcLength >= 50 and a quad found.
RECURSIVE kept_contours(_)
kept_contours(cnts) ==
  IF cnts = << >> THEN << >>
  ELSE IF Head(cnts).arc < min_arc_length \/ ~ extract_quad_found(Head(cnts))
       THEN kept_contours(Tail(cnts))
       ELSE << Head(cnts) >> \o kept_contours(Tail(cnts))

detect_tapes_raises(cnts) ==
  \E i \in 1..Len(cnts) : cnts[i].arc >= min_arc_length /\ extract_quad_raises(cnts[i])

\* detect_tapes: the quads of the frame's contours, reordered.
detect_tapes(cnts) ==
  LET kept == kept_contours(cnts)
  IN reorder_quads([i \in 1..Len(kept) |-> extract_quad(kept[i])])

(***************************************************************************)
(* Inputs.                                                                 *)
(***************************************************************************)
\* The poses cv2.solvePnP may return, (rvec, tvec): translations of norm 10,
\* 22 (12 away from 10) and 23 (13 away), straight ahead, to the side, and
\* offset in height.  Rotations are about the y axis only: the camera's
\* forward axis then stays in the x-z plane, and the two vectors whose angle
\* is the yaw are both far from zero.  (With the forward axis along world y
\* its x-z projection is zero up to rounding and the yaw the program computes
\* is decided by that rounding.)
Poses ==
  { << <<0, 0, 0>>, <<0, 0, 10>> >>, << <<0, 0, 0>>, <<0, 0, 22>> >>,
    << <<0, 0, 0>>, <<0, 0, 23>> >>, << <<0, 1, 0>>, <<10, 0, 0>> >>,
    << <<0, 0, 0>>, <<10, 0, 0>> >>, << <<0, 0, 0>>, <<0, 6, 8>> >> }
ChessPoses == { << <<0, 0, 0>>, <<0, 0, 10>> >>, << <<0, 1, 0>>, <<23, 0, 0>> >> }
SolverOutputsOf(poses) ==
  { [success |-> s, rvec |-> p[1], tvec |-> p[2]] : s \in BOOLEAN, p \in poses }
SolverOutputs == SolverOutputsOf(Poses)
ChessSolverOutputs == SolverOutputsOf(ChessPoses)
NoSolve == [success |-> FALSE, rvec |-> None, tvec |-> None]

\* An upright 20 x 10 quad (tl, tr, br, bl) with its top-left corner at (x, y).
MkQuad(x, y) == << <<x, y>>, <<x + 20, y>>, <<x + 20, y + 10>>, <<x, y + 10>> >>

\* n quads, 10 px apart, left to right, centred on column c with top row t.
MkQuads(n, c, t) == [j \in 1..n |-> MkQuad(c - (15 * n - 5) + 30 * (j - 1), t)]

\* The quad lists handed to the localizers.
QuadLists ==
  { MkQuads(n, c, t) : n \in 0..MaxQuads,
                       c \in {Calib.cx, Calib.cx + Calib.fx},
                       t \in {Calib.cy, Calib.cy + Calib.fy} }
\* One quad list of each length.
QuadListsByCount == { MkQuads(n, Calib.cx, Calib.cy) : n \in 0..MaxQuads }

\* What cv2 reports of the contour of an upright w x h rectangle with its
\* top-left corner at (x, y).
RectContour(x, y, w, h) ==
  [pts |-> << <<x, y>>, <<x + w, y>>, <<x + w, y + h>>, <<x, y + h>> >>,
   arc |-> 2 * (w + h), area |-> w * h, hull_area |-> w * h,
   rect |-> [w |-> w, h |-> h, angle |-> 0],
   box |-> << <<x, y + h>>, <<x, y>>, <<x + w, y>>, <<x + w, y + h>> >>]

\* The contours of MkQuads(n, c, t), right to left.
GoodContours(n, c, t) ==
  [j \in 1..n |-> RectContour(MkQuads(n, c, t)[n + 1 - j][1][1], t, 20, 10)]

\* Contours detect_tapes drops: too short, too small, at the border, square,
\* too long, not convex, and one that minAreaRect reports turned by 90.
RejectContours ==
  << RectContour(100, 40, 8, 8), RectContour(130, 40, 16, 9),
     RectContour(5, 40, 20, 10), RectContour(200, 40, 20, 20),
     RectContour(250, 40, 120, 10),
     [RectContour(300, 60, 20, 10) EXCEPT !.hull_area = 300],
     [RectContour(340, 60, 10, 20) EXCEPT !.rect = [w |-> 20, h |-> 10, angle |-> 90]] >>

\* The frames handed to runPipeline, each named by <<n, c, t, extra>>: the
\* contours of MkQuads(n, c, t), followed by RejectContours when extra.
FrameIds ==
  (0..MaxQuads) \X {Calib.cx, Calib.cx + Calib.fx}
                \X {Calib.cy, Calib.cy + Calib.fy} \X BOOLEAN
\* The frames used in PnP mode, where the solver's answer is an input too.
PnPFrameIds == { f \in FrameIds : f[2] = Calib.cx /\ f[3] = Calib.cy }
\* A frame without contours.
NoFrame == << 0, Calib.cx, Calib.cy, FALSE >>
FrameContours(f) ==
  GoodContours(f[1], f[2], f[3]) \o (IF f[4] THEN RejectContours ELSE << >>)

Targets == {"hub", "chess", "ball"}

\* The points of a found chessboard (object and image side).
ChessPoints == [i \in 1..4 |-> <<"chess", i>>]

(***************************************************************************)
(* State.                                                                  *)
(***************************************************************************)
Hubs == {"hubA", "hubB"}
Owners == Hubs \cup {"chess"}

VARIABLES
  cam,      \* Owners -> the owner's CameraExtrinsics (hub.cam_ext, chess.cam_ext)
  config,   \* Hubs -> the scene constants the hub was constructed with
  call,     \* the last call: its arguments, inputs and outcome
  probed,   \* both hubs have just localized the same quads
  eval      \* a function of the module applied on its own: name, input, results

vars == <<cam, config, call, probed, eval>>

NoEval == [fn |-> "none", base |-> << >>, arg |-> << >>, out |-> None, again |-> None]

NoCall ==
  [op |-> "init", owner |-> "hubA", n |-> 0, pts |-> FALSE, pnp |-> NoSolve,
   was_valid |-> FALSE, ret |-> FALSE, exc |-> "none",
   target |-> "-", known |-> FALSE, out |-> None,
   guess |-> FALSE, seed |-> << None, None >>, after |-> "-"]

Init ==
  /\ cam = [o \in Owners |-> CameraExtrinsics_init]
  /\ config \in {f \in [Hubs -> SceneConfigs] : f["hubB"] = FullConfig}
  /\ call = NoCall
  /\ probed = FALSE
  /\ eval = NoEval

\* cam_ext.reset() called directly.
Reset(o) ==
  /\ cam' = [cam EXCEPT ![o] = reset(cam[o])]
  /\ call' = [NoCall EXCEPT !.op = "reset", !.owner = o,
                            !.was_valid = cam[o].trackingSuccess]
  /\ UNCHANGED <<config, probed, eval>>

\* cam_ext.estimate_pose(obj_pts, img_pts) called directly, with points
\* (matching counts) or with None.
EstimatePose(o, given, solved) ==
  LET pts == IF given THEN ChessPoints ELSE None IN
  /\ cam' = [cam EXCEPT ![o] = estimate_pose(cam[o], pts, pts, solved)]
  /\ call' = [NoCall EXCEPT !.op = "estimate_pose", !.owner = o, !.pts = given,
                            !.pnp = IF given THEN solved ELSE NoSolve,
                            !.was_valid = cam[o].trackingSuccess,
                            !.ret = estimate_pose_ret(cam[o], pts, pts, solved),
                            !.exc = estimate_pose_exc(pts, pts)]
  /\ UNCHANGED <<config, probed, eval>>

\* hub.localize(quads).
Localize(h, quads, solved) ==
  LET ran == Len(quads) >= 2 /\ localize_exc(quads) = "none" IN
  /\ cam' = [cam EXCEPT ![h] = localize(cam[h], quads, solved)]
  /\ call' = [NoCall EXCEPT !.op = "localize", !.owner = h, !.n = Len(quads),
                            !.pts = Len(quads) >= 2,
                            !.pnp = IF ran THEN solved ELSE NoSolve,
                            !.was_valid = cam[h].trackingSuccess,
                            !.ret = IF Len(quads) >= 2
                                    THEN estimate_pose_ret(cam[h], localize_obj_pts(quads),
                                                           localize_img_pts(quads), solved)
                                    ELSE FALSE,
                            !.exc = localize_exc(quads)]
  /\ probed' = FALSE
  /\ UNCHANGED <<config, eval>>

\* hub.localize_known_config(quads).
LocalizeKnownConfig(h, quads) ==
  /\ cam' = [cam EXCEPT ![h] = localize_known_config(cam[h], config[h], quads)]
  /\ call' = [NoCall EXCEPT !.op = "localize_known_config", !.owner = h,
                            !.n = Len(quads), !.known = TRUE,
                            !.was_valid = cam[h].trackingSuccess]
  /\ probed' = FALSE
  /\ UNCHANGED <<config, eval>>

\* chess.localize(frame): the chessboard is found in the frame or not.
ChessLocalize(found, solved) ==
  LET pts == IF found THEN ChessPoints ELSE None IN
  /\ cam' = [cam EXCEPT !["chess"] = estimate_pose(cam["chess"], pts, pts, solved)]
  /\ call' = [NoCall EXCEPT !.op = "chess.localize", !.owner = "chess", !.pts = found,
                            !.pnp = IF found THEN solved ELSE NoSolve,
                            !.was_valid = cam["chess"].trackingSuccess,
                            !.ret = estimate_pose_ret(cam["chess"], pts, pts, solved),
                            !.exc = estimate_pose_exc(pts, pts)]
  /\ UNCHANGED <<config, probed, eval>>

\* detect_tapes on one frame: the exception it ends with and its quads.
DetectedIn(f) ==
  IF detect_tapes_raises(FrameContours(f))
  THEN [exc |-> "NameError", quads |-> << >>]
  ELSE [exc |-> "none", quads |-> detect_tapes(FrameContours(f))]

\* DetectedIn tabulated over a set of frames.
RECURSIVE Tabulate(_)
Tabulate(ids) ==
  IF ids = {} THEN << >>
  ELSE LET f == CHOOSE x \in ids : TRUE
       IN (f :> DetectedIn(f)) @@ Tabulate(ids \ {f})

Detected == Tabulate(FrameIds)

\* runPipeline(frame, llrobot, hub, chess, target, use_localize_known_config):
\* f names the frame, found is whether it shows the chessboard.
\* (frame_idx only paces a log line; drawing on out_frame changes no state.)
\* runPipeline_exc with an unknown target falling through to the chessboard
\* branch instead of raising.
runPipeline_exc_fallthrough(det, target, known) ==
  IF target = "hub"
  THEN IF det.exc # "none" THEN det.exc
       ELSE IF known THEN "none"
       ELSE localize_exc(det.quads)
  ELSE "none"

runPipeline_exc(det, target, known) ==
  IF target = "hub"
  THEN IF det.exc # "none" THEN det.exc
       ELSE IF known THEN "none"
       ELSE localize_exc(det.quads)
  ELSE IF target = "chess" THEN "none"
  ELSE "ValueError"

runPipeline_cam(ce, cfg, det, target, known, found, solved) ==
  IF runPipeline_exc(det, target, known) # "none" THEN ce
  ELSE IF target = "hub"
  THEN IF known THEN localize_known_config(ce, cfg, det.quads)
       ELSE localize(ce, det.quads, solved)
  ELSE LET pts == IF found THEN ChessPoints ELSE None
       IN estimate_pose(ce, pts, pts, solved)

RunPipeline(h, f, target, known, found, solved) ==
  LET o == IF target = "chess" THEN "chess" ELSE h
      det == IF target = "hub" THEN Detected[f] ELSE [exc |-> "none", quads |-> << >>]
      exc == runPipeline_exc(det, target, known)
      after == runPipeline_cam(cam[o], config[h], det, target, known, found, solved)
      pts == IF target = "hub" THEN det.exc = "none" /\ ~ known /\ Len(det.quads) >= 2
             ELSE target = "chess" /\ found
      ran == pts /\ exc = "none"
  IN
  /\ cam' = [cam EXCEPT ![o] = after]
  /\ call' = [NoCall EXCEPT !.op = "runPipeline", !.owner = o, !.n = Len(det.quads),
                            !.pts = pts,
                            !.pnp = IF ran THEN solved ELSE NoSolve,
                            !.was_valid = cam[o].trackingSuccess,
                            !.ret = ran /\ update_rvec_tvec_ret(cam[o], solved.rvec, solved.tvec),
                            !.exc = exc, !.target = target, !.known = known,
                            !.out = IF exc = "none"
                                    THEN << cam'[o].yaw, cam'[o].distance >> ELSE None]
  /\ UNCHANGED <<config, probed, eval>>

Next ==
  \/ \E o \in {"hubA", "chess"} : Reset(o)
  \/ \E given \in BOOLEAN, solved \in ChessSolverOutputs :
       EstimatePose("chess", given, solved)
  \/ \E quads \in QuadListsByCount, solved \in SolverOutputs :
       Localize("hubA", quads, solved)
  \/ \E quads \in QuadLists : LocalizeKnownConfig("hubA", quads)
  \/ \E found \in BOOLEAN, solved \in ChessSolverOutputs : ChessLocalize(found, solved)
  \/ \E f \in FrameIds : RunPipeline("hubA", f, "hub", TRUE, FALSE, NoSolve)
  \/ \E f \in PnPFrameIds, solved \in SolverOutputs :
       RunPipeline("hubA", f, "hub", FALSE, FALSE, solved)
  \/ \E found \in BOOLEAN, solved \in ChessSolverOutputs :
       RunPipeline("hubA", NoFrame, "chess", TRUE, found, solved)
  \/ \E target \in Targets \ {"hub", "chess"}, known \in BOOLEAN :
       RunPipeline("hubA", NoFrame, target, known, FALSE, NoSolve)

Spec == Init /\ [][Next]_vars

(***************************************************************************)
(* Two hubs of the same configuration, each with its own history of        *)
(* frames, then the same quads given to both.                              *)
(***************************************************************************)
PairPoses == { << <<0, 0, 0>>, <<0, 0, 10>> >>, << <<0, 0, 0>>, <<0, 6, 8>> >> }

InitPair ==
  /\ cam = [o \in Owners |-> CameraExtrinsics_init]
  /\ config \in {f \in [Hubs -> SceneConfigs] : f["hubA"] = f["hubB"]}
  /\ call = NoCall
  /\ probed = FALSE
  /\ eval = NoEval

\* hub.localize(quads) on one of the hubs.
PairLocalize(h, quads, solved) ==
  /\ cam' = [cam EXCEPT ![h] = localize(cam[h], quads, solved)]
  /\ call' = [NoCall EXCEPT !.op = "localize", !.owner = h, !.exc = localize_exc(quads)]
  /\ probed' = FALSE
  /\ UNCHANGED <<config, eval>>

\* hub.localize_known_config(quads) on one of the hubs.
PairLocalizeKnownConfig(h, quads) ==
  /\ cam' = [cam EXCEPT ![h] = localize_known_config(cam[h], config[h], quads)]
  /\ call' = [NoCall EXCEPT !.op = "localize_known_config", !.owner = h, !.known = TRUE]
  /\ probed' = FALSE
  /\ UNCHANGED <<config, eval>>

\* localize_known_config(quads) on both hubs with the same quads.
Probe(quads) ==
  /\ cam' = [o \in Owners |->
               IF o \in Hubs THEN localize_known_config(cam[o], config[o], quads)
               ELSE cam[o]]
  /\ call' = [NoCall EXCEPT !.op = "localize_known_config", !.n = Len(quads),
                            !.known = TRUE]
  /\ probed' = TRUE
  /\ UNCHANGED <<config, eval>>

NextPair ==
  \/ \E h \in Hubs, quads \in QuadListsByCount, solved \in SolverOutputsOf(PairPoses) :
       PairLocalize(h, quads, solved)
  \/ \E h \in Hubs, quads \in QuadLists : PairLocalizeKnownConfig(h, quads)
  \/ \E quads \in QuadLists : Probe(quads)

SpecPair == InitPair /\ [][NextPair]_vars

(***************************************************************************)
(* sort_quad applied to every ordering of four corner points.              *)
(***************************************************************************)
\* Four corners each: an upright rectangle, a turned rectangle, a turned
\* rectangle two of whose corners share the middle x, a trapezoid whose
\* right corners are equally far from its top-left corner, a convex quad.
SortBases ==
  { << <<10, 10>>, <<30, 10>>, <<30, 20>>, <<10, 20>> >>,
    << <<4, 0>>, <<10, 8>>, <<6, 11>>, <<0, 3>> >>,
    << <<0, 10>>, <<20, 0>>, <<40, 40>>, <<20, 50>> >>,
    << <<0, 1>>, <<2, 0>>, <<2, 2>>, <<0, 5>> >>,
    << <<1, 2>>, <<9, 0>>, <<12, 7>>, <<0, 9>> >> }

Perms4 == { p \in [1..4 -> 1..4] : \A i, j \in 1..4 : p[i] = p[j] => i = j }
Permute(q, p) == [i \in 1..4 |-> q[p[i]]]

InitSort ==
  /\ cam = [o \in Owners |-> CameraExtrinsics_init]
  /\ config = [h \in Hubs |-> FullConfig]
  /\ call = NoCall
  /\ probed = FALSE
  /\ eval \in { [fn |-> "sort_quad", base |-> b, arg |-> Permute(b, p),
                 out |-> None, again |-> None] : b \in SortBases, p \in Perms4 }

\* box_points = sort_quad(box_points)
SortQuad ==
  /\ eval.fn = "sort_quad" /\ eval.out = None
  /\ eval' = [eval EXCEPT !.out = sort_quad(eval.arg)]
  /\ UNCHANGED <<cam, config, call, probed>>

\* sort_quad applied to its own result.
SortQuadAgain ==
  /\ eval.fn = "sort_quad" /\ eval.out # None /\ eval.again = None
  /\ eval' = [eval EXCEPT !.again = sort_quad(eval.out)]
  /\ UNCHANGED <<cam, config, call, probed>>

NextSort == SortQuad \/ SortQuadAgain

SpecSort == InitSort /\ [][NextSort]_vars

(***************************************************************************)
(* SpecWarm: one CameraExtrinsics driven frame by frame, recording what    *)
(* estimate_pose hands to the solver (call.guess, call.seed) and how the   *)
(* frame before ended (call.after).                                        *)
(***************************************************************************)
\* How the call recorded in `call` ended.
Outcome ==
  IF call.pnp # NoSolve /\ call.was_valid /\ ~ call.ret THEN "veto"
  ELSE IF call.op = "estimate_pose" /\ ~ call.pts THEN "insufficient"
  ELSE IF call.ret THEN "accepted"
  ELSE "-"

WarmReset ==
  /\ cam' = [cam EXCEPT !["chess"] = reset(cam["chess"])]
  /\ call' = [NoCall EXCEPT !.op = "reset", !.owner = "chess",
                            !.was_valid = cam["chess"].trackingSuccess,
                            !.after = Outcome]
  /\ UNCHANGED <<config, probed, eval>>

WarmEstimatePose(given, solved) ==
  LET pts == IF given THEN ChessPoints ELSE None
      ce == cam["chess"]
  IN
  /\ cam' = [cam EXCEPT !["chess"] = estimate_pose(ce, pts, pts, solved)]
  /\ call' = [NoCall EXCEPT !.op = "estimate_pose", !.owner = "chess", !.pts = given,
                            !.pnp = IF given THEN solved ELSE NoSolve,
                            !.was_valid = ce.trackingSuccess,
                            !.ret = estimate_pose_ret(ce, pts, pts, solved),
                            !.exc = estimate_pose_exc(pts, pts),
                            !.guess = given /\ solvePnP_guess(ce),
                            !.seed = IF given THEN rvec_tvec(ce) ELSE << None, None >>,
                            !.after = Outcome]
  /\ UNCHANGED <<config, probed, eval>>

InitWarm ==
  /\ cam = [o \in Owners |-> CameraExtrinsics_init]
  /\ config = [h \in Hubs |-> FullConfig]
  /\ call = NoCall
  /\ probed = FALSE
  /\ eval = NoEval

NextWarm ==
  \/ WarmReset
  \/ \E given \in BOOLEAN, solved \in SolverOutputs : WarmEstimatePose(given, solved)

SpecWarm == InitWarm /\ [][NextWarm]_vars

(***************************************************************************)
(* SpecRoll: the zero-roll step of extract_quad on the sorted box points   *)
(* of upright and tilted strips.  The shapes are chosen so that every      *)
(* interpolated y is a whole number.                                       *)
(***************************************************************************)
\* Box points relative to the box's corner: two upright rectangles, a
\* rectangle tilted each way, and a quad with vertical sides and sloping
\* top and bottom.
RollShapes ==
  { << <<0, 0>>, <<20, 0>>, <<20, 10>>, <<0, 10>> >>,
    << <<0, 0>>, <<40, 0>>, <<40, 10>>, <<0, 10>> >>,
    << <<2, 0>>, <<18, 8>>, <<16, 12>>, <<0, 4>> >>,
    << <<0, 8>>, <<16, 0>>, <<18, 4>>, <<2, 12>> >>,
    << <<0, 0>>, <<20, 4>>, <<20, 14>>, <<0, 10>> >> }

RollBoxes ==
  { [i \in 1..4 |-> << x0 + k * sh[i][1], y0 + k * sh[i][2] >>] :
      sh \in RollShapes, k \in {1, 2}, x0 \in {20, 60, 100}, y0 \in {20, 50, 80} }

InitRoll ==
  /\ cam = [o \in Owners |-> CameraExtrinsics_init]
  /\ config = [h \in Hubs |-> FullConfig]
  /\ call = NoCall
  /\ probed = FALSE
  /\ eval \in { [fn |-> "zero_roll", base |-> b, arg |-> sort_quad(b),
                 out |-> None, again |-> None] : b \in RollBoxes }

\* The assume_zero_roll block of extract_quad on the sorted box points.
ZeroRoll ==
  /\ eval.fn = "zero_roll" /\ eval.out = None
  /\ ~ zero_roll_raises(eval.arg)
  /\ eval' = [eval EXCEPT !.out = zero_roll(eval.arg)]
  /\ UNCHANGED <<cam, config, call, probed>>

\* The same block on its own result.
ZeroRollAgain ==
  /\ eval.fn = "zero_roll" /\ eval.out # None /\ eval.again = None
  /\ ~ zero_roll_raises(eval.out)
  /\ eval' = [eval EXCEPT !.again = zero_roll(eval.out)]
  /\ UNCHANGED <<cam, config, call, probed>>

NextRoll == ZeroRoll \/ ZeroRollAgain

SpecRoll == InitRoll /\ [][NextRoll]_vars

(***************************************************************************)
(* SpecBorder: test_border_proximity on contours with a point at, inside   *)
(* and outside the margin of each border.                                  *)
(***************************************************************************)
\* mask.shape = (height, width) of the frames tried.
BorderMasks == { MaskShape, <<240, 320>> }

\* Coordinates around the margin of both ends of an axis of length len.
BorderCoords(len) == { 9, 10, len \div 2, len - 10, len - 9 }

\* A two-point contour: a point in the middle of the frame and a probe.
BorderPolygons(mask_shape) ==
  LET mid == << mask_shape[2] \div 2, mask_shape[1] \div 2 >>
  IN UNION { { << mid, <<x, y>> >>, << <<x, y>>, mid >> } :
               x \in BorderCoords(mask_shape[2]), y \in BorderCoords(mask_shape[1]) }

InitBorder ==
  /\ cam = [o \in Owners |-> CameraExtrinsics_init]
  /\ config = [h \in Hubs |-> FullConfig]
  /\ call = NoCall
  /\ probed = FALSE
  /\ eval \in { [fn |-> "test_border_proximity", base |-> m, arg |-> poly,
                 out |-> None, again |-> None] :
                  m \in BorderMasks, poly \in UNION { BorderPolygons(mm) : mm \in BorderMasks } }

\* test_border_proximity(polygon, mask)
TestBorderProximity ==
  /\ eval.fn = "test_border_proximity" /\ eval.out = None
  /\ eval' = [eval EXCEPT !.out = Some(test_border_proximity(eval.arg, eval.base))]
  /\ UNCHANGED <<cam, config, call, probed>>

NextBorder == TestBorderProximity

SpecBorder == InitBorder /\ [][NextBorder]_vars

(***************************************************************************)
(* SpecPoints: Hub.localize on frames of 0 to MaxQuads quads at several    *)
(* places in the image, recording the correspondences it hands to          *)
(* estimate_pose.                                                          *)
(***************************************************************************)
PointsQuadLists ==
  { MkQuads(n, c, t) : n \in 0..MaxQuads,
                       c \in {Calib.cx - 60, Calib.cx - 40, Calib.cx, Calib.cx + 40,
                              Calib.cx + 60, Calib.cx + Calib.fx},
                       t \in {Calib.cy - 50, Calib.cy, Calib.cy + 50, Calib.cy + Calib.fy} }

InitPoints ==
  /\ cam = [o \in Owners |-> CameraExtrinsics_init]
  /\ config = [h \in Hubs |-> FullConfig]
  /\ call = NoCall
  /\ probed = FALSE
  /\ eval \in { [fn |-> "localize", base |-> quads, arg |-> << >>,
                 out |-> None, again |-> None] : quads \in PointsQuadLists }

\* hub.localize(eval.base), the whole call: with fewer than 2 quads the
\* reset; otherwise the points are built (recorded in eval.out as (obj_pts,
\* img_pts)) and handed to estimate_pose, which raises or updates the pose.
LocalizePoints(solved) ==
  LET quads == eval.base
      ran == Len(quads) >= 2 /\ localize_exc(quads) = "none"
  IN
  /\ eval.fn = "localize" /\ eval.out = None
  /\ cam' = [cam EXCEPT !["hubA"] = localize(cam["hubA"], quads, solved)]
  /\ call' = [NoCall EXCEPT !.op = "localize", !.owner = "hubA", !.n = Len(quads),
                            !.pts = Len(quads) >= 2,
                            !.pnp = IF ran THEN solved ELSE NoSolve,
                            !.was_valid = cam["hubA"].trackingSuccess,
                            !.ret = IF Len(quads) >= 2
                                    THEN estimate_pose_ret(cam["hubA"],
                                                           localize_obj_pts(quads),
                                                           localize_img_pts(quads), solved)
                                    ELSE FALSE,
                            !.exc = localize_exc(quads)]
  /\ eval' = IF Len(quads) < 2 THEN eval
             ELSE [eval EXCEPT !.out = Some(<< localize_obj_pts(quads),
                                               localize_img_pts(quads) >>)]
  /\ UNCHANGED <<config, probed>>

NextPoints == \E solved \in SolverOutputsOf(PairPoses) : LocalizePoints(solved)

SpecPoints == InitPoints /\ [][NextPoints]_vars

(***************************************************************************)
(* SpecAspect: test_aspect_ratio on rectangles of minAreaRect's angle      *)
(* range, with sides at, inside and outside the aspect-ratio window.       *)
(***************************************************************************)
AspectRects ==
  { [w |-> w, h |-> h, angle |-> a] :
      w \in {10, 12, 20, 100, 101}, h \in {10, 24},
      a \in {-90, -60, -46, -45, -30, 0, 30, 45, 46, 60, 61, 90} }

InitAspect ==
  /\ cam = [o \in Owners |-> CameraExtrinsics_init]
  /\ config = [h \in Hubs |-> FullConfig]
  /\ call = NoCall
  /\ probed = FALSE
  /\ eval \in { [fn |-> "test_aspect_ratio", base |-> r, arg |-> << >>,
                 out |-> None, again |-> None] : r \in AspectRects }

\* test_aspect_ratio(polygon_rect)
TestAspectRatio ==
  /\ eval.fn = "test_aspect_ratio" /\ eval.out = None
  /\ eval' = [eval EXCEPT !.out = Some(test_aspect_ratio(eval.base))]
  /\ UNCHANGED <<cam, config, call, probed>>

NextAspect == TestAspectRatio

SpecAspect == InitAspect /\ [][NextAspect]_vars

(***************************************************************************)
(* SpecTapes: set_vis_tape_coords on a range of hub geometries.            *)
(***************************************************************************)
TapeGeometries ==
  { [radius |-> 27, tape_length |-> l, gap_length |-> gap, tape_height |-> h,
     num_tapes |-> n] :
      l \in {1, 5, 7}, gap \in {0, 6, 8}, h \in {2, 4}, n \in 0..MaxQuads }

InitTapes ==
  /\ cam = [o \in Owners |-> CameraExtrinsics_init]
  /\ config = [h \in Hubs |-> FullConfig]
  /\ call = NoCall
  /\ probed = FALSE
  /\ eval \in { [fn |-> "set_vis_tape_coords", base |-> g, arg |-> << >>,
                 out |-> None, again |-> None] : g \in TapeGeometries }

\* self.tapes = self.set_vis_tape_coords()
SetVisTapeCoords ==
  /\ eval.fn = "set_vis_tape_coords" /\ eval.out = None
  /\ eval' = [eval EXCEPT !.out = Some(set_vis_tape_coords(eval.base))]
  /\ UNCHANGED <<cam, config, call, probed>>

NextTapes == SetVisTapeCoords

SpecTapes == InitTapes /\ [][NextTapes]_vars

(***************************************************************************)
(* Properties.                                                             *)
(***************************************************************************)
\* The fully reset shape of a CameraExtrinsics.
IsResetShape(ce) ==
  /\ ~ ce.trackingSuccess
  /\ ce.rvec = None /\ ce.tvec = None
  /\ ce.yaw = 0 /\ ce.distance = 0

\* The fully updated shape: a stored pose and the metrics computed from it.
IsUpdatedShape(ce) ==
  /\ ce.trackingSuccess
  /\ ce.rvec # None /\ ce.tvec # None
  /\ ce.yaw = compute_farness_and_turnness(ce).yaw
  /\ ce.distance = compute_farness_and_turnness(ce).distance

\* The last call ran the pose solver.
SolverRan == call.pnp # NoSolve

ConfigComplete(c) == c.height # None /\ c.cam_height # None /\ c.cam_pitch # None

\* The last call was, or ended in, Hub.localize_known_config.
KnownCall ==
  \/ call.op = "localize_known_config"
  \/ call.op = "runPipeline" /\ call.target = "hub" /\ call.known /\ call.exc = "none"

\* The last call was reset, estimate_pose, Hub.localize or
\* ChessboardTracker.localize (directly or from runPipeline) and returned.
PoseCall ==
  /\ call.exc = "none"
  /\ \/ call.op \in {"reset", "estimate_pose", "localize", "chess.localize"}
     \/ call.op = "runPipeline" /\ call.target = "chess"
     \/ call.op = "runPipeline" /\ call.target = "hub" /\ ~ call.known

\* C1: outlier veto.  A call that runs the solver while the estimator holds a
\* valid pose returns False and leaves the fully reset state when the norm of
\* the new translation differs from the stored one's by more than 12; when
\* the difference is at most 12 it returns True, stores the new pose and stays
\* valid.
C1_OutlierVeto ==
  [][ (SolverRan' /\ cam[call'.owner].trackingSuccess) =>
        LET o == call'.owner
            jump == Abs(Norm(call'.pnp.tvec) - Norm(cam[o].tvec))
        IN IF jump > 12
           THEN ~ call'.ret /\ IsResetShape(cam'[o])
           ELSE /\ call'.ret
                /\ cam'[o].trackingSuccess
                /\ cam'[o].rvec = call'.pnp.rvec
                /\ cam'[o].tvec = call'.pnp.tvec ]_vars

\* C1 witness: the veto has fired on an estimator that was tracking.
C1_Witness ==
  /\ SolverRan /\ call.was_valid /\ ~ call.ret
  /\ Norm(call.pnp.tvec) = 23
  /\ IsResetShape(cam[call.owner])

\* C2: a solver failure leads to Invalid.  Whenever the solver ran and
\* reported failure, the call returned False and the estimator is fully reset.
C2_FailedEstimateInvalid ==
  (SolverRan /\ ~ call.pnp.success) =>
    (~ call.ret /\ IsResetShape(cam[call.owner]))

\* The last call had insufficient input: no quads (either mode), fewer than 2
\* quads in PnP mode, or None points handed to estimate_pose.
InsufficientInput ==
  /\ call.exc = "none"
  /\ \/ call.op = "localize" /\ call.n < 2
     \/ call.op = "localize_known_config" /\ call.n = 0
     \/ call.op \in {"estimate_pose", "chess.localize"} /\ ~ call.pts
     \/ call.op = "runPipeline" /\ call.target = "hub" /\ call.n = 0
     \/ call.op = "runPipeline" /\ call.target = "hub" /\ ~ call.known /\ call.n < 2
     \/ call.op = "runPipeline" /\ call.target = "chess" /\ ~ call.pts

\* C3: insufficient input resets the state from any prior state: validity
\* false, yaw 0, distance 0, rvec and tvec cleared.
C3_InsufficientInputResets ==
  InsufficientInput => IsResetShape(cam[call.owner])

\* C3 witness: a single quad in PnP mode right after a tracked frame.
C3_Witness ==
  /\ call.op = "localize" /\ call.n = 1 /\ call.was_valid
  /\ IsResetShape(cam[call.owner])

\* C4: after every call, whenever the validity flag is false, yaw, pitch and
\* distance are all zero (a pitch that was never assigned counts as zero).
C4_InvalidMeansZeroMetrics ==
  call.op # "init" =>
    \A o \in Owners :
      ~ is_valid(cam[o]) =>
        (cam[o].yaw = 0 /\ cam[o].distance = 0 /\ cam[o].pitch \in {None, Some(0)})

\* C5 as stated: every call of localize_known_config leaves rvec, tvec and the
\* validity flag as they were.
C5_KnownConfigNeverTouchesPose ==
  [][ KnownCall' =>
        LET o == call'.owner
        IN /\ cam'[o].rvec = cam[o].rvec
           /\ cam'[o].tvec = cam[o].tvec
           /\ cam'[o].trackingSuccess = cam[o].trackingSuccess ]_vars

\* C5 amended: a call of localize_known_config with all three scene constants
\* set and at least one quad leaves rvec, tvec and the validity flag as they
\* were; a call with a constant unset or with no quads clears them (reset).
C5_KnownConfigPose ==
  [][ KnownCall' =>
        LET o == call'.owner
        IN IF ConfigComplete(config[o]) /\ call'.n >= 1
           THEN /\ cam'[o].rvec = cam[o].rvec
                /\ cam'[o].tvec = cam[o].tvec
                /\ cam'[o].trackingSuccess = cam[o].trackingSuccess
           ELSE IsResetShape(cam'[o]) ]_vars

\* C5 witness: a known-geometry call with quads on a hub that holds a valid
\* pose, which it still holds.
C5_Witness ==
  /\ call.op = "localize_known_config" /\ call.n >= 1 /\ call.was_valid
  /\ ConfigComplete(config[call.owner])
  /\ cam[call.owner].trackingSuccess /\ cam[call.owner].rvec # None

\* C6: atomic pose update.  After every completed reset, estimate_pose,
\* Hub.localize or ChessboardTracker.localize the state is fully updated
\* (valid, pose stored, yaw and distance computed from that pose) or fully
\* reset.
C6_AtomicPoseUpdate ==
  PoseCall => (IsUpdatedShape(cam[call.owner]) \/ IsResetShape(cam[call.owner]))

\* C6 witness: a pose accepted over a different, previously valid pose.
C6_Witness ==
  /\ call.op = "localize" /\ call.was_valid /\ call.ret
  /\ cam[call.owner].tvec = <<0, 6, 8>>
  /\ IsUpdatedShape(cam[call.owner])

\* C7 as stated: runPipeline raises (a) for a target other than 'hub' and
\* 'chess' and (b) in known-geometry mode on a hub with a scene constant unset.
C7_ConfigErrorsRaise ==
  (/\ call.op = "runPipeline"
   /\ \/ call.target \notin {"hub", "chess"}
      \/ call.target = "hub" /\ call.known /\ ~ ConfigComplete(config["hubA"]))
  => call.exc # "none"

\* C7 amended: (a) a target other than 'hub' and 'chess' raises ValueError;
\* (b) known-geometry mode on a hub with a scene constant unset raises no
\* configuration error: the call returns the reset state, output (0, 0).
C7_ConfigErrors ==
  call.op = "runPipeline" =>
    /\ call.target \notin {"hub", "chess"} => call.exc = "ValueError"
    /\ (call.target = "hub" /\ call.known /\ ~ ConfigComplete(config["hubA"])) =>
         /\ call.exc \in {"none", "NameError"}
         /\ call.exc = "none" => (call.out = <<0, 0>> /\ IsResetShape(cam["hubA"]))

\* C7 witness: known-geometry mode with a constant unset, quads in the frame,
\* on a hub that was tracking: it returned, reset.
C7_Witness ==
  /\ call.op = "runPipeline" /\ call.target = "hub" /\ call.known
  /\ ~ ConfigComplete(config["hubA"])
  /\ call.n >= 1 /\ call.was_valid /\ call.exc = "none" /\ call.out = <<0, 0>>

\* C8: with target 'hub', in either mode, runPipeline returns normally for
\* every frame.
C8_PipelineNeverRaises ==
  (call.op = "runPipeline" /\ call.target = "hub") => call.exc = "none"

\* C9: two hubs of the same configuration that have just localized the same
\* quads by localize_known_config hold the same yaw, pitch and distance,
\* whatever frames each saw before.
C9_KnownConfigStateless ==
  (probed /\ config["hubA"] = config["hubB"]) =>
    /\ cam["hubA"].yaw = cam["hubB"].yaw
    /\ cam["hubA"].distance = cam["hubB"].distance
    /\ cam["hubA"].pitch = cam["hubB"].pitch

\* C10: sort_quad gives every ordering of the same four corners the same
\* result, and sorting its result again returns it unchanged.
C10_SortQuadCanonical ==
  (eval.fn = "sort_quad" /\ eval.out # None) =>
    /\ eval.out = sort_quad(eval.base)
    /\ eval.again # None => eval.again = eval.out

\* C11: the target model has num_tapes strips of 4 corners; strip i (from 0)
\* starts at arc i * (tape_length + gap_length) and ends tape_length later,
\* and its corners are (top, first edge), (top, second edge), (bottom, second
\* edge), (bottom, first edge): y = (-h/2, -h/2, +h/2, +h/2) at angles
\* (start, end, end, start).
C11_TapeCoords ==
  (eval.fn = "set_vis_tape_coords" /\ eval.out # None) =>
    LET g == eval.base
        tapes == Val(eval.out)
    IN /\ Len(tapes) = g.num_tapes
       /\ \A i \in 1..Len(tapes) :
            LET start == (i - 1) * (g.tape_length + g.gap_length)
                end == start + g.tape_length
                h2 == g.tape_height \div 2
            IN /\ Len(tapes[i]) = 4
               /\ tapes[i] = << <<start, -h2>>, <<end, -h2>>,
                                <<end, h2>>, <<start, h2>> >>

\* C11 witness: a model of three strips with a gap between them.
C11_Witness ==
  /\ eval.fn = "set_vis_tape_coords" /\ eval.out # None
  /\ eval.base.num_tapes = 3 /\ eval.base.gap_length = 6
  /\ Val(eval.out)[3][1] = <<22, -1>>

\* C12: warm start only from Tracking.  estimate_pose hands the solver the
\* stored pose as its initial guess exactly when the estimator is valid at
\* the call; the frame right after a veto or an insufficient-input frame is
\* cold (no guess, no initial pose), skips the jump check and has its
\* estimate accepted whatever it is.
C12_WarmStartOnlyFromTracking ==
  [][ (call'.pnp # NoSolve) =>
        LET o == call'.owner IN
        /\ call'.guess = cam[o].trackingSuccess
        /\ call'.seed = << cam[o].rvec, cam[o].tvec >>
        /\ call'.guess => (cam[o].rvec # None /\ cam[o].tvec # None)
        /\ call'.after \in {"veto", "insufficient"} => ~ call'.guess
        /\ ~ call'.guess =>
             /\ call'.seed = << None, None >>
             /\ call'.ret
             /\ cam'[o].trackingSuccess
             /\ cam'[o].rvec = call'.pnp.rvec
             /\ cam'[o].tvec = call'.pnp.tvec ]_vars

\* C12 witness: right after a veto, a cold start accepted an estimate of
\* norm 23.
C12_Witness ==
  /\ call.op = "estimate_pose" /\ call.pnp # NoSolve
  /\ call.after = "veto" /\ ~ call.guess /\ call.ret
  /\ Norm(call.pnp.tvec) = 23
  /\ cam[call.owner].tvec = call.pnp.tvec

\* C12 witness of the other frame the claim names: a cold start right after
\* an insufficient-input frame.
C12_WitnessInsufficient ==
  /\ call.op = "estimate_pose" /\ call.pnp # NoSolve
  /\ call.after = "insufficient" /\ ~ call.guess /\ call.ret

\* p lies on the segment from a to b.
OnEdge(p, a, b) ==
  /\ (b[1] - a[1]) * (p[2] - a[2]) = (b[2] - a[2]) * (p[1] - a[1])
  /\ (p[1] - a[1]) * (p[1] - b[1]) <= 0
  /\ (p[2] - a[2]) * (p[2] - b[2]) <= 0

\* C13: zero-roll correction.  For sorted corners (tl, tr, br, bl) the result
\* has both left corners at x = max(tl.x, bl.x) and both right corners at
\* x = min(tr.x, br.x), the corrected top corners on the original top edge
\* and the corrected bottom corners on the original bottom edge; a quad whose
\* sides are already vertical comes back unchanged.
C13_ZeroRoll ==
  (eval.fn = "zero_roll" /\ eval.out # None) =>
    LET q == eval.arg
        r == eval.out
        xl == IF q[1][1] > q[4][1] THEN q[1][1] ELSE q[4][1]
        xr == IF q[2][1] < q[3][1] THEN q[2][1] ELSE q[3][1]
    IN /\ r[1][1] = xl /\ r[4][1] = xl
       /\ r[2][1] = xr /\ r[3][1] = xr
       /\ OnEdge(r[1], q[1], q[2]) /\ OnEdge(r[2], q[1], q[2])
       /\ OnEdge(r[4], q[4], q[3]) /\ OnEdge(r[3], q[4], q[3])
       /\ (q[1][1] = q[4][1] /\ q[2][1] = q[3][1]) => r = q
       /\ eval.again # None => eval.again = r

\* C13 witness: a tilted strip whose four corners the correction moved or
\* kept on its top and bottom edges.
C13_Witness ==
  /\ eval.fn = "zero_roll" /\ eval.out # None
  /\ eval.arg = << <<22, 20>>, <<38, 28>>, <<36, 32>>, <<20, 24>> >>
  /\ eval.out = << <<22, 20>>, <<36, 27>>, <<36, 32>>, <<22, 25>> >>

\* C13 witness of the unchanged case: sides already vertical, top and bottom
\* sloping.
C13_WitnessVertical ==
  /\ eval.fn = "zero_roll" /\ eval.out # None
  /\ eval.arg = << <<20, 20>>, <<40, 24>>, <<40, 34>>, <<20, 30>> >>
  /\ eval.out = eval.arg /\ eval.again = eval.arg

\* p is less than 10 pixels from the left, right, top or bottom border of a
\* W x H image.
InMargin(p, W, H) ==
  \/ p[1] < 10 \/ W - p[1] < 10
  \/ p[2] < 10 \/ H - p[2] < 10

\* C14: test_border_proximity rejects a contour exactly when one of its
\* points lies within the 10-pixel margin of one of the four borders of the
\* W x H mask, and accepts it otherwise.
C14_BorderProximity ==
  (eval.fn = "test_border_proximity" /\ eval.out # None) =>
    LET W == eval.base[2]
        H == eval.base[1]
    IN Val(eval.out) = ~ (\E i \in 1..Len(eval.arg) : InMargin(eval.arg[i], W, H))

\* C14 witness: rejected for a single point 9 pixels from the right border
\* of the 400 x 300 mask, at mid height.
C14_Witness ==
  /\ eval.fn = "test_border_proximity" /\ eval.base = <<300, 400>>
  /\ eval.arg = << <<200, 150>>, <<391, 150>> >>
  /\ eval.out = Some(FALSE)

\* C14 witness of acceptance: a point exactly 10 pixels from the right and
\* bottom borders.
C14_WitnessAccepted ==
  /\ eval.fn = "test_border_proximity" /\ eval.base = <<300, 400>>
  /\ eval.arg = << <<200, 150>>, <<390, 290>> >>
  /\ eval.out = Some(TRUE)

\* C15: whenever Hub.localize invokes the pose estimator, there are as many
\* image points as object points, 4 * k each with k = min(number of quads,
\* number of strips), and the corners of quad j are paired with the corners
\* of strip j.
C15_CorrespondencesMatch ==
  (eval.fn = "localize" /\ eval.out # None) =>
    LET quads == eval.base
        obj_pts == Val(eval.out)[1]
        img_pts == Val(eval.out)[2]
        k == Min(Len(quads), Len(Tapes))
    IN /\ Len(img_pts) = Len(obj_pts)
       /\ Len(obj_pts) = 4 * k
       /\ \A j \in 1..k : \A c \in 1..4 :
            /\ obj_pts[4 * (j - 1) + c] = Tapes[j][c]
            /\ img_pts[4 * (j - 1) + c] = quads[j][c]

\* The side along the rectangle's near-horizontal direction is between 1.2
\* and 10 times the other side.
AspectInWindow(rect) ==
  LET along == IF -45 < rect.angle /\ rect.angle < 45 THEN rect.w ELSE rect.h
      across == IF -45 < rect.angle /\ rect.angle < 45 THEN rect.h ELSE rect.w
  IN 10 * along >= 12 * across /\ along <= 10 * across

\* C16: the tilt check of test_aspect_ratio never rejects.  For every angle
\* in [-90, 90] the normalised angle is at most 45, below max_horz_angle =
\* 60, and the result is whether the oriented aspect ratio is in [1.2, 10].
C16_TiltNeverRejects ==
  (eval.fn = "test_aspect_ratio" /\ eval.out # None) =>
    /\ horz_angle(eval.base.angle) <= 45
    /\ horz_angle(eval.base.angle) <= 60
    /\ Val(eval.out) = AspectInWindow(eval.base)

\* C16 witness: a rectangle at angle 90 whose height, the side that then
\* runs horizontally, is 1.2 times its width: accepted.
C16_Witness ==
  /\ eval.fn = "test_aspect_ratio"
  /\ eval.base = [w |-> 20, h |-> 24, angle |-> 90]
  /\ eval.out = Some(TRUE)
====
